---- MODULE Spec2Model ----
(***************************************************************************)
(* State-machine model of otbr::CliDaemon (src/host/posix/cli_daemon.cpp): *)
(* the Unix-domain-socket CLI endpoint of the border-router agent.         *)
(*                                                                         *)
(* Every daemon instance is one process with its own descriptor table.     *)
(* The instances share the file system (lock files, socket files) and the  *)
(* advisory locks.  Each public operation (Init, Deinit, UpdateFdSet,      *)
(* Process) runs from "idle" through one step per system call to           *)
(* "returned"; a failed VerifyOrDie leads to "die" and, once the operating *)
(* system has torn the process down, to "dead".                            *)
(***************************************************************************)
EXTENDS Integers, Sequences, FiniteSets, TLC

VARIABLES
    mListenSocket,   \* [Daemons -> Int]  CliDaemon::mListenSocket
    mDaemonLock,     \* [Daemons -> Int]  CliDaemon::mDaemonLock
    mSessionSocket,  \* [Daemons -> Int]  CliDaemon::mSessionSocket
    pc,              \* [Daemons -> STRING]  position of the running operation
    local,           \* [Daemons -> record]  arguments and locals of the running operation
    fdTable,         \* [Daemons -> [Fds -> entry]]  the process' open descriptors
    ebadf,           \* [Daemons -> BOOLEAN]  some close() hit a descriptor that was not open
    flockOwner,      \* [Paths -> 0 or daemon]  holder of the exclusive advisory lock
    files,           \* [Paths -> 0 or daemon]  existing files and the daemon that created them
    nextConn,        \* [Daemons -> Nat]  number of connections accepted so far
    hist,            \* [Daemons -> record]  history: lifecycle, session byte streams
    started          \* the daemon instances that are running

vars == <<mListenSocket, mDaemonLock, mSessionSocket, pc, local, fdTable, ebadf,
          flockOwner, files, nextConn, hist, started>>

-----------------------------------------------------------------------------
(* Bounds of the model *)

\* Number of daemon instances that may run side by side.
NumDaemons == 2
\* Number of connections a daemon accepts before accept() only fails.
MaxConns == 2
\* Largest number of bytes one read() returns (stands for kCliMaxLineLength).
MaxChunk == 2
\* Largest number of bytes received on one session.
MaxStream == 2
\* Largest number of descriptors marked in one readiness set.
MaxReady == 2
\* Longest interface name GetSocketFilename is applied to on its own.
MaxNameLen == 88

-----------------------------------------------------------------------------
(* Program constants *)

kDefaultNetIfName == "wpan0"
kSocketBaseName == "/run/openthread-"
kSocketSuffix == ".sock"
kSocketLockSuffix == ".lock"
\* sizeof(sockaddr_un::sun_path)
kSunPathSize == 108
kMaxSocketFilenameLength == kSunPathSize - 1
\* Width of the aLength parameter of InputCommandLine (uint16_t).
kLengthWidth == 65536

Daemons == 1..NumDaemons
\* No daemon: the owner of a free lock, the creator of a file that does not exist.
NoDaemon == NumDaemons - NumDaemons
\* The descriptor numbers of a process after the standard streams: enough for
\* the listen socket, the lock file, the session and a connection being accepted.
Fds == 3..6
Bytes == {0, 1}

\* An interface name of 87 characters: its paths have 108 characters.
kNetIfNameTooLong ==
    "abcdefghijklmnopqrstuvwxyzabcdefghijklmnopqrstuvwxyzabcdefghijklmnopqrstuvwxyzabcdefghi"

NetIfNames == {"", "wpan0", kNetIfNameTooLong}

\* Interface names of every length up to MaxNameLen, and the default name.
kNameStock ==
    "abcdefghijklmnopqrstuvwxyzabcdefghijklmnopqrstuvwxyzabcdefghijklmnopqrstuvwxyzabcdefghijklmnopqrstuvwxyz"
NamesByLength == {SubSeq(kNameStock, 1, n) : n \in 0..MaxNameLen} \cup {kDefaultNetIfName}
Suffixes == {kSocketSuffix, kSocketLockSuffix}

-----------------------------------------------------------------------------
(* GetSocketFilename *)

\* Mutant of SocketFilename: an empty name is not replaced by the default name.
SocketFilename_NoDefault(aNetIfName, aSuffix) ==
    kSocketBaseName \o aNetIfName \o aSuffix

\* fileName = kSocketBaseName + netIfName + aSuffix, with the default name for "".
SocketFilename(aNetIfName, aSuffix) ==
    LET netIfName == IF aNetIfName = "" THEN kDefaultNetIfName ELSE aNetIfName
    IN  kSocketBaseName \o netIfName \o aSuffix

\* Mutant of FilenameFits: the limit is the size of sun_path, terminator included.
FilenameFits_OffByOne(aNetIfName, aSuffix) ==
    Len(SocketFilename(aNetIfName, aSuffix)) <= kSunPathSize

\* The condition of the VerifyOrDie in GetSocketFilename.
FilenameFits(aNetIfName, aSuffix) ==
    Len(SocketFilename(aNetIfName, aSuffix)) <= kMaxSocketFilenameLength


\* strncpy(sockname.sun_path, socketfile.c_str(), sizeof(sockname.sun_path) - 1)
\* into a zeroed sun_path.
SunPath(socketfile) ==
    IF Len(socketfile) <= kSunPathSize - 1 THEN socketfile
    ELSE SubSeq(socketfile, 1, kSunPathSize - 1)

\* The paths the file system may be asked about.
Paths ==
    {SocketFilename(n, s) : n \in NetIfNames, s \in Suffixes}
        \cup {SunPath(SocketFilename(n, s)) : n \in NetIfNames, s \in Suffixes}

-----------------------------------------------------------------------------
(* The operating system: descriptor tables, close, exit *)

ClosedFd == [kind |-> "closed", path |-> "", listening |-> FALSE, conn |-> 0]
SocketFd == [kind |-> "socket", path |-> "", listening |-> FALSE, conn |-> 0]
LockFd(path) == [kind |-> "lock", path |-> path, listening |-> FALSE, conn |-> 0]
ConnFd(c) == [kind |-> "conn", path |-> "", listening |-> FALSE, conn |-> c]

IsOpen(d, fd) == fd \in Fds /\ fdTable[d][fd].kind # "closed"

HasFreeFd(d) == \E f \in Fds : ~IsOpen(d, f)

\* POSIX hands out the lowest descriptor number that is not open.
LowestFreeFd(d) == CHOOSE f \in Fds : ~IsOpen(d, f) /\ \A g \in Fds : g < f => IsOpen(d, g)

\* The accepted connections that are open in the process.
OpenConns(d) == {f \in Fds : fdTable[d][f].kind = "conn"}

\* close(fd): the descriptor is released; closing the lock file releases the lock;
\* closing a descriptor that is not open fails with EBADF.
CloseFd(d, fd) ==
    IF IsOpen(d, fd)
    THEN /\ fdTable' = [fdTable EXCEPT ![d][fd] = ClosedFd]
         /\ flockOwner' = [p \in Paths |->
                IF fdTable[d][fd].kind = "lock" /\ fdTable[d][fd].path = p /\ flockOwner[p] = d
                THEN NoDaemon ELSE flockOwner[p]]
         /\ UNCHANGED ebadf
    ELSE /\ ebadf' = [ebadf EXCEPT ![d] = TRUE]
         /\ UNCHANGED <<fdTable, flockOwner>>

-----------------------------------------------------------------------------
(* Locals of the running operation *)

NoFrame ==
    [op |-> "", aNetIfName |-> "", aSuffix |-> "", fileName |-> "", error |-> "NONE",
     newSessionSocket |-> -1, flag |-> -1, received |-> 0, buffer |-> <<>>,
     readFdSet |-> {}, errorFdSet |-> {}, registered |-> {},
     sockname |-> "", prior |-> 0, readConn |-> 0, delivered |-> <<>>,
     calls |-> <<>>]

\* The frame after one more system call (or consumer call) has been made.
Called(loc, name) == [loc EXCEPT !.calls = Append(@, name)]

\* History of a daemon: whether Init has succeeded and Deinit has followed; why
\* the last session to end became absent; and of the active session: its
\* connection, the connection it replaced, the bytes read from it, the bytes
\* delivered to the consumer, and whether the consumer has returned an error.
NoHist == [endpoint |-> "none", adopted |-> 0, replaced |-> 0, ended |-> "",
           rx |-> <<>>, in |-> <<>>, rejected |-> FALSE]

ReadinessSets == {S \in SUBSET Fds : Cardinality(S) <= MaxReady}

-----------------------------------------------------------------------------
(* Initial state: CliDaemon::CliDaemon *)

InitCommon ==
    /\ mListenSocket = [d \in Daemons |-> -1]
    /\ mDaemonLock = [d \in Daemons |-> -1]
    /\ mSessionSocket = [d \in Daemons |-> -1]
    /\ pc = [d \in Daemons |-> "idle"]
    /\ local = [d \in Daemons |-> NoFrame]
    /\ fdTable = [d \in Daemons |-> [f \in Fds |-> ClosedFd]]
    /\ ebadf = [d \in Daemons |-> FALSE]
    /\ flockOwner = [p \in Paths |-> NoDaemon]
    /\ files = [p \in Paths |-> NoDaemon]
    /\ nextConn = [d \in Daemons |-> 0]
    /\ hist = [d \in Daemons |-> NoHist]

\* One daemon instance.
Init == InitCommon /\ started = {1}

\* One daemon instance about to evaluate GetSocketFilename(aNetIfName, aSuffix).
InitFilename ==
    /\ mListenSocket = [d \in Daemons |-> -1]
    /\ mDaemonLock = [d \in Daemons |-> -1]
    /\ mSessionSocket = [d \in Daemons |-> -1]
    /\ started = {1}
    /\ pc = [d \in Daemons |-> IF d \in started THEN "filename" ELSE "idle"]
    /\ \E aNetIfName \in NamesByLength, aSuffix \in Suffixes :
            local = [d \in Daemons |->
                        IF d \in started
                        THEN [NoFrame EXCEPT !.op = "GetSocketFilename",
                                             !.aNetIfName = aNetIfName, !.aSuffix = aSuffix]
                        ELSE NoFrame]
    /\ fdTable = [d \in Daemons |-> [f \in Fds |-> ClosedFd]]
    /\ ebadf = [d \in Daemons |-> FALSE]
    /\ flockOwner = [p \in Paths |-> NoDaemon]
    /\ files = [p \in Paths |-> NoDaemon]
    /\ nextConn = [d \in Daemons |-> 0]
    /\ hist = [d \in Daemons |-> NoHist]

\* Several daemon instances on one host.
InitDaemons == InitCommon /\ started = Daemons

\* Daemon d is running and its operation stands at the given position.
At(d, position) == d \in started /\ pc[d] = position

\* GetSocketFilename(aNetIfName, aSuffix): the file name is returned when it
\* fits, and the process is terminated when it does not.
GetSocketFilename(d) ==
    /\ At(d, "filename")
    /\ IF FilenameFits(local[d].aNetIfName, local[d].aSuffix)
       THEN /\ local' = [local EXCEPT ![d].fileName =
                            SocketFilename(local[d].aNetIfName, local[d].aSuffix)]
            /\ pc' = [pc EXCEPT ![d] = "returned"]
       ELSE /\ local' = [local EXCEPT ![d].error = "INVALID_ARGS"]
            /\ pc' = [pc EXCEPT ![d] = "die"]
    /\ UNCHANGED <<mListenSocket, mDaemonLock, mSessionSocket, fdTable, ebadf, flockOwner,
                   files, nextConn, hist, started>>

-----------------------------------------------------------------------------
(* CliDaemon::Clear *)

\* Mutant of Clear: the session is marked absent and its descriptor is not closed.
Clear_NoClose(d, loc) ==
    /\ mSessionSocket' = [mSessionSocket EXCEPT ![d] = -1]
    /\ local' = [local EXCEPT ![d] = loc]
    /\ UNCHANGED <<fdTable, ebadf, flockOwner>>

\* Clear(): an active session is closed and becomes absent.  loc is the frame
\* of the caller, which records the close().
Clear(d, loc) ==
    IF mSessionSocket[d] # -1
    THEN /\ CloseFd(d, mSessionSocket[d])
         /\ mSessionSocket' = [mSessionSocket EXCEPT ![d] = -1]
         /\ local' = [local EXCEPT ![d] = Called(loc, "close")]
    ELSE /\ UNCHANGED <<mSessionSocket, fdTable, ebadf, flockOwner>>
         /\ local' = [local EXCEPT ![d] = loc]

\* The history once the active session, if there is one, has ended for the given reason.
Ended(d, why) ==
    IF mSessionSocket[d] # -1
    THEN [hist EXCEPT ![d].ended = why, ![d].adopted = 0, ![d].replaced = 0,
                      ![d].rx = <<>>, ![d].in = <<>>, ![d].rejected = FALSE]
    ELSE hist

-----------------------------------------------------------------------------
(* CliDaemon::Init and CliDaemon::CreateListenSocket *)

\* Mutant of InitRejects: the guard tests the session descriptor.
InitRejects_Session(d) == mSessionSocket[d] # -1

\* Mutant of InitRejects: Init is rejected only when the socket is listening.
InitRejects_ListeningOnly(d) ==
    mListenSocket[d] # -1 /\ fdTable[d][mListenSocket[d]].listening

\* The guard of Init: a listen socket exists already.
InitRejects(d) == mListenSocket[d] # -1

\* Init(aNetIfName), up to the call of CreateListenSocket.
InitEnter(d, aNetIfName) ==
    /\ At(d, "idle")
    /\ LET loc == [NoFrame EXCEPT !.op = "Init", !.aNetIfName = aNetIfName]
       IN  IF InitRejects(d)
           THEN /\ local' = [local EXCEPT ![d] = [loc EXCEPT !.error = "INVALID_STATE"]]
                /\ pc' = [pc EXCEPT ![d] = "returned"]
           ELSE /\ local' = [local EXCEPT ![d] = loc]
                /\ pc' = [pc EXCEPT ![d] = "socket"]
    /\ UNCHANGED <<mListenSocket, mDaemonLock, mSessionSocket, fdTable, ebadf,
                   flockOwner, files, nextConn, hist, started>>

\* mListenSocket = SocketWithCloseExec(AF_UNIX, SOCK_STREAM, 0, kSocketNonBlock)
CLS_Socket(d) ==
    /\ At(d, "socket")
    /\ \E ok \in BOOLEAN :
        /\ ok => HasFreeFd(d)
        /\ IF ok
           THEN /\ mListenSocket' = [mListenSocket EXCEPT ![d] = LowestFreeFd(d)]
                /\ fdTable' = [fdTable EXCEPT ![d][LowestFreeFd(d)] = SocketFd]
                /\ local' = [local EXCEPT ![d] = Called(@, "socket")]
                /\ pc' = [pc EXCEPT ![d] = "open"]
           ELSE /\ mListenSocket' = [mListenSocket EXCEPT ![d] = -1]
                /\ local' = [local EXCEPT ![d] = [Called(@, "socket") EXCEPT !.error = "ERRNO"]]
                /\ pc' = [pc EXCEPT ![d] = "returned"]
                /\ UNCHANGED fdTable
    /\ UNCHANGED <<mDaemonLock, mSessionSocket, ebadf, flockOwner, files, nextConn,
                   hist, started>>

\* lockfile = GetSocketFilename(aNetIfName, kSocketLockSuffix);
\* mDaemonLock = open(lockfile, O_CREAT | O_RDONLY | O_CLOEXEC, 0600)
CLS_OpenLock(d) ==
    /\ At(d, "open")
    /\ LET lockfile == SocketFilename(local[d].aNetIfName, kSocketLockSuffix)
       IN  IF ~FilenameFits(local[d].aNetIfName, kSocketLockSuffix)
           THEN /\ pc' = [pc EXCEPT ![d] = "die"]
                /\ UNCHANGED <<mDaemonLock, fdTable, files, local>>
           ELSE \E ok \in BOOLEAN :
                /\ ok => HasFreeFd(d)
                /\ IF ok
                   THEN /\ mDaemonLock' = [mDaemonLock EXCEPT ![d] = LowestFreeFd(d)]
                        /\ fdTable' = [fdTable EXCEPT ![d][LowestFreeFd(d)] = LockFd(lockfile)]
                        /\ files' = [files EXCEPT ![lockfile] = IF @ = NoDaemon THEN d ELSE @]
                        /\ local' = [local EXCEPT ![d] = Called(@, "open")]
                        /\ pc' = [pc EXCEPT ![d] = "flock"]
                   ELSE /\ mDaemonLock' = [mDaemonLock EXCEPT ![d] = -1]
                        /\ local' = [local EXCEPT ![d] =
                                        [Called(@, "open") EXCEPT !.error = "ERRNO"]]
                        /\ pc' = [pc EXCEPT ![d] = "returned"]
                        /\ UNCHANGED <<fdTable, files>>
    /\ UNCHANGED <<mListenSocket, mSessionSocket, ebadf, flockOwner, nextConn, hist, started>>

\* Whether flock(fd, LOCK_EX | LOCK_NB) can be granted: nobody holds the lock.
FlockFree(d) == flockOwner[fdTable[d][mDaemonLock[d]].path] = NoDaemon

\* Mutant of CLS_Flock: the result of flock() is not tested.
CLS_Flock_Unchecked(d) ==
    /\ At(d, "flock")
    /\ \E ok \in BOOLEAN :
        /\ ok => FlockFree(d)
        /\ flockOwner' = IF ok THEN [flockOwner EXCEPT ![fdTable[d][mDaemonLock[d]].path] = d]
                         ELSE flockOwner
    /\ local' = [local EXCEPT ![d] = Called(@, "flock")]
    /\ pc' = [pc EXCEPT ![d] = "unlink"]
    /\ UNCHANGED <<mListenSocket, mDaemonLock, mSessionSocket, fdTable, ebadf, files,
                   nextConn, hist, started>>

\* flock(mDaemonLock, LOCK_EX | LOCK_NB)
CLS_Flock(d) ==
    /\ At(d, "flock")
    /\ \E ok \in BOOLEAN :
        /\ ok => FlockFree(d)
        /\ IF ok
           THEN /\ flockOwner' = [flockOwner EXCEPT ![fdTable[d][mDaemonLock[d]].path] = d]
                /\ local' = [local EXCEPT ![d] = Called(@, "flock")]
                /\ pc' = [pc EXCEPT ![d] = "unlink"]
           ELSE /\ local' = [local EXCEPT ![d] = [Called(@, "flock") EXCEPT !.error = "ERRNO"]]
                /\ pc' = [pc EXCEPT ![d] = "returned"]
                /\ UNCHANGED flockOwner
    /\ UNCHANGED <<mListenSocket, mDaemonLock, mSessionSocket, fdTable, ebadf, files,
                   nextConn, hist, started>>

\* socketfile = GetSocketFilename(aNetIfName, kSocketSuffix);
\* OTBR_UNUSED_VARIABLE(unlink(sockname.sun_path)): the file is removed, or
\* unlink fails and the file, if there is one, stays; the result is ignored.
CLS_Unlink(d) ==
    /\ At(d, "unlink")
    /\ LET socketfile == SocketFilename(local[d].aNetIfName, kSocketSuffix)
       IN  IF ~FilenameFits(local[d].aNetIfName, kSocketSuffix)
           THEN /\ pc' = [pc EXCEPT ![d] = "die"]
                /\ UNCHANGED <<files, local>>
           ELSE /\ \E ok \in BOOLEAN :
                    files' = IF ok THEN [files EXCEPT ![SunPath(socketfile)] = NoDaemon]
                             ELSE files
                /\ local' = [local EXCEPT ![d] =
                                [Called(@, "unlink") EXCEPT !.sockname = SunPath(socketfile)]]
                /\ pc' = [pc EXCEPT ![d] = "bind"]
    /\ UNCHANGED <<mListenSocket, mDaemonLock, mSessionSocket, fdTable, ebadf, flockOwner,
                   nextConn, hist, started>>

\* Mutant of CLS_Bind: a failed bind closes the lock file before returning.
CLS_Bind_CloseOnFailure(d) ==
    /\ At(d, "bind")
    /\ \E ok \in BOOLEAN :
        /\ ok => files[local[d].sockname] = NoDaemon
        /\ IF ok
           THEN /\ files' = [files EXCEPT ![local[d].sockname] = d]
                /\ fdTable' = [fdTable EXCEPT ![d][mListenSocket[d]].path = local[d].sockname]
                /\ local' = [local EXCEPT ![d] = Called(@, "bind")]
                /\ pc' = [pc EXCEPT ![d] = "listen"]
                /\ UNCHANGED <<ebadf, flockOwner>>
           ELSE /\ local' = [local EXCEPT ![d] =
                                [Called(Called(@, "bind"), "close") EXCEPT !.error = "ERRNO"]]
                /\ CloseFd(d, mDaemonLock[d])
                /\ pc' = [pc EXCEPT ![d] = "returned"]
                /\ UNCHANGED files
    /\ UNCHANGED <<mListenSocket, mDaemonLock, mSessionSocket, nextConn, hist, started>>

\* bind(mListenSocket, &sockname, sizeof(struct sockaddr_un)): creates the socket
\* file; fails when a file exists at the path.
CLS_Bind(d) ==
    /\ At(d, "bind")
    /\ \E ok \in BOOLEAN :
        /\ ok => files[local[d].sockname] = NoDaemon
        /\ IF ok
           THEN /\ files' = [files EXCEPT ![local[d].sockname] = d]
                /\ fdTable' = [fdTable EXCEPT ![d][mListenSocket[d]].path = local[d].sockname]
                /\ local' = [local EXCEPT ![d] = Called(@, "bind")]
                /\ pc' = [pc EXCEPT ![d] = "listen"]
           ELSE /\ local' = [local EXCEPT ![d] = [Called(@, "bind") EXCEPT !.error = "ERRNO"]]
                /\ pc' = [pc EXCEPT ![d] = "returned"]
                /\ UNCHANGED <<files, fdTable>>
    /\ UNCHANGED <<mListenSocket, mDaemonLock, mSessionSocket, ebadf, flockOwner, nextConn,
                   hist, started>>

\* listen(mListenSocket, 1), after CreateListenSocket has returned OTBR_ERROR_NONE.
InitListen(d) ==
    /\ At(d, "listen")
    /\ \E ok \in BOOLEAN :
        IF ok
        THEN /\ fdTable' = [fdTable EXCEPT ![d][mListenSocket[d]].listening = TRUE]
             /\ local' = [local EXCEPT ![d] = Called(@, "listen")]
             /\ hist' = [hist EXCEPT ![d].endpoint = "init"]
        ELSE /\ local' = [local EXCEPT ![d] = [Called(@, "listen") EXCEPT !.error = "ERRNO"]]
             /\ UNCHANGED <<fdTable, hist>>
    /\ pc' = [pc EXCEPT ![d] = "returned"]
    /\ UNCHANGED <<mListenSocket, mDaemonLock, mSessionSocket, ebadf, flockOwner, files,
                   nextConn, started>>

-----------------------------------------------------------------------------
(* CliDaemon::Deinit and CliDaemon::UpdateFdSet *)

\* Mutant of Deinit: the lock file is closed too.
Deinit_ClosesLock(d) ==
    /\ At(d, "idle")
    /\ mSessionSocket[d] = -1
    /\ CloseFd(d, mDaemonLock[d])
    /\ local' = [local EXCEPT ![d] = [NoFrame EXCEPT !.op = "Deinit"]]
    /\ hist' = [hist EXCEPT ![d].endpoint = IF @ = "init" THEN "deinit" ELSE @]
    /\ pc' = [pc EXCEPT ![d] = "returned"]
    /\ UNCHANGED <<mListenSocket, mDaemonLock, mSessionSocket, files, nextConn, started>>

\* Mutant of Deinit: the listen descriptor is marked invalid as well.
Deinit_ResetsListen(d) ==
    /\ At(d, "idle")
    /\ Clear(d, [NoFrame EXCEPT !.op = "Deinit"])
    /\ mListenSocket' = [mListenSocket EXCEPT ![d] = -1]
    /\ hist' = [Ended(d, "deinit") EXCEPT ![d].endpoint = IF @ = "init" THEN "deinit" ELSE @]
    /\ pc' = [pc EXCEPT ![d] = "returned"]
    /\ UNCHANGED <<mDaemonLock, files, nextConn, started>>

\* Mutant of Deinit: the listen socket is closed together with the session.
Deinit_ClosesListen(d) ==
    /\ At(d, "idle")
    /\ fdTable' = [fdTable EXCEPT ![d] =
                    [f \in Fds |-> IF f \in {mSessionSocket[d], mListenSocket[d]}
                                   THEN ClosedFd ELSE fdTable[d][f]]]
    /\ mSessionSocket' = [mSessionSocket EXCEPT ![d] = -1]
    /\ local' = [local EXCEPT ![d] =
                    IF mSessionSocket[d] # -1
                    THEN Called([NoFrame EXCEPT !.op = "Deinit"], "close")
                    ELSE [NoFrame EXCEPT !.op = "Deinit"]]
    /\ hist' = [Ended(d, "deinit") EXCEPT ![d].endpoint = IF @ = "init" THEN "deinit" ELSE @]
    /\ pc' = [pc EXCEPT ![d] = "returned"]
    /\ UNCHANGED <<mListenSocket, mDaemonLock, ebadf, flockOwner, files, nextConn, started>>

\* Deinit(): Clear().
Deinit(d) ==
    /\ At(d, "idle")
    /\ Clear(d, [NoFrame EXCEPT !.op = "Deinit"])
    /\ hist' = [Ended(d, "deinit") EXCEPT ![d].endpoint = IF @ = "init" THEN "deinit" ELSE @]
    /\ pc' = [pc EXCEPT ![d] = "returned"]
    /\ UNCHANGED <<mListenSocket, mDaemonLock, files, nextConn, started>>

\* The descriptors UpdateFdSet adds to the read and error sets of the context.
RegisteredFds(d) ==
    (IF mListenSocket[d] # -1 THEN {mListenSocket[d]} ELSE {})
        \cup (IF mSessionSocket[d] # -1 THEN {mSessionSocket[d]} ELSE {})

UpdateFdSet(d) ==
    /\ At(d, "idle")
    /\ local' = [local EXCEPT ![d] =
                    [NoFrame EXCEPT !.op = "UpdateFdSet", !.registered = RegisteredFds(d)]]
    /\ pc' = [pc EXCEPT ![d] = "returned"]
    /\ UNCHANGED <<mListenSocket, mDaemonLock, mSessionSocket, fdTable, ebadf, flockOwner,
                   files, nextConn, hist, started>>

-----------------------------------------------------------------------------
(* CliDaemon::Process and CliDaemon::InitializeSessionSocket *)

FD_ISSET(fd, fdSet) == fd \in fdSet

\* Mutant of ProcessEnter: the read set is tested before the error set.
ProcessEnter_ReadableFirst(d, readFdSet, errorFdSet) ==
    /\ At(d, "idle")
    /\ local' = [local EXCEPT ![d] = [NoFrame EXCEPT !.op = "Process",
                                         !.readFdSet = readFdSet, !.errorFdSet = errorFdSet,
                                         !.registered = RegisteredFds(d)]]
    /\ pc' = [pc EXCEPT ![d] =
                IF mListenSocket[d] = -1 THEN "returned"
                ELSE IF FD_ISSET(mListenSocket[d], readFdSet) THEN "accept"
                ELSE IF FD_ISSET(mListenSocket[d], errorFdSet) THEN "die"
                ELSE "session"]
    /\ UNCHANGED <<mListenSocket, mDaemonLock, mSessionSocket, fdTable, ebadf, flockOwner,
                   files, nextConn, hist, started>>

\* Process(aContext), up to the call of InitializeSessionSocket.
ProcessEnter(d, readFdSet, errorFdSet) ==
    /\ At(d, "idle")
    /\ local' = [local EXCEPT ![d] = [NoFrame EXCEPT !.op = "Process",
                                         !.readFdSet = readFdSet, !.errorFdSet = errorFdSet,
                                         !.registered = RegisteredFds(d)]]
    /\ pc' = [pc EXCEPT ![d] =
                IF mListenSocket[d] = -1 THEN "returned"
                ELSE IF FD_ISSET(mListenSocket[d], errorFdSet) THEN "die"
                ELSE IF FD_ISSET(mListenSocket[d], readFdSet) THEN "accept"
                ELSE "session"]
    /\ UNCHANGED <<mListenSocket, mDaemonLock, mSessionSocket, fdTable, ebadf, flockOwner,
                   files, nextConn, hist, started>>

\* Whether accept(mListenSocket) can return a connection.
CanAccept(d) ==
    /\ IsOpen(d, mListenSocket[d])
    /\ fdTable[d][mListenSocket[d]].listening
    /\ HasFreeFd(d)
    /\ nextConn[d] < MaxConns

\* newSessionSocket = accept(mListenSocket, nullptr, nullptr)
ISS_Accept(d) ==
    /\ At(d, "accept")
    /\ \E ok \in BOOLEAN :
        /\ ok => CanAccept(d)
        /\ IF ok
           THEN /\ fdTable' = [fdTable EXCEPT ![d][LowestFreeFd(d)] = ConnFd(nextConn[d] + 1)]
                /\ nextConn' = [nextConn EXCEPT ![d] = @ + 1]
                /\ local' = [local EXCEPT ![d] =
                                [Called(@, "accept") EXCEPT
                                    !.newSessionSocket = LowestFreeFd(d),
                                    !.prior = IF mSessionSocket[d] # -1
                                              THEN fdTable[d][mSessionSocket[d]].conn ELSE 0]]
                /\ pc' = [pc EXCEPT ![d] = "getfd"]
           ELSE /\ local' = [local EXCEPT ![d] =
                                [Called(@, "accept") EXCEPT !.newSessionSocket = -1]]
                /\ pc' = [pc EXCEPT ![d] = "iss_exit"]
                /\ UNCHANGED <<fdTable, nextConn>>
    /\ UNCHANGED <<mListenSocket, mDaemonLock, mSessionSocket, ebadf, flockOwner, files,
                   hist, started>>

\* Mutant of ISS_GetFd: on -1 the new descriptor is not closed.
ISS_GetFd_NoClose(d) ==
    /\ At(d, "getfd")
    /\ \E ok \in BOOLEAN :
        IF ok
        THEN /\ local' = [local EXCEPT ![d] = [Called(@, "fcntl") EXCEPT !.flag = 0]]
             /\ pc' = [pc EXCEPT ![d] = "setfd"]
        ELSE /\ local' = [local EXCEPT ![d] = [Called(@, "fcntl") EXCEPT !.flag = -1]]
             /\ pc' = [pc EXCEPT ![d] = "iss_exit"]
    /\ UNCHANGED <<mListenSocket, mDaemonLock, mSessionSocket, fdTable, ebadf, flockOwner,
                   files, nextConn, hist, started>>

\* flag = fcntl(newSessionSocket, F_GETFD, 0): the descriptor flags of a fresh
\* connection (none set), or -1; on -1 the new descriptor is closed.
ISS_GetFd(d) ==
    /\ At(d, "getfd")
    /\ \E ok \in BOOLEAN :
        IF ok
        THEN /\ local' = [local EXCEPT ![d] = [Called(@, "fcntl") EXCEPT !.flag = 0]]
             /\ pc' = [pc EXCEPT ![d] = "setfd"]
             /\ UNCHANGED <<fdTable, ebadf, flockOwner>>
        ELSE /\ local' = [local EXCEPT ![d] =
                            [Called(Called(@, "fcntl"), "close") EXCEPT !.flag = -1]]
             /\ CloseFd(d, local[d].newSessionSocket)
             /\ pc' = [pc EXCEPT ![d] = "iss_exit"]
    /\ UNCHANGED <<mListenSocket, mDaemonLock, mSessionSocket, files, nextConn, hist, started>>

\* flag |= FD_CLOEXEC; flag = fcntl(newSessionSocket, F_SETFD, flag): 0 or -1;
\* on -1 the new descriptor is closed.
ISS_SetFd(d) ==
    /\ At(d, "setfd")
    /\ \E ok \in BOOLEAN :
        IF ok
        THEN /\ local' = [local EXCEPT ![d] = [Called(@, "fcntl") EXCEPT !.flag = 0]]
             /\ pc' = [pc EXCEPT ![d] = "clear"]
             /\ UNCHANGED <<fdTable, ebadf, flockOwner>>
        ELSE /\ local' = [local EXCEPT ![d] =
                            [Called(Called(@, "fcntl"), "close") EXCEPT !.flag = -1]]
             /\ CloseFd(d, local[d].newSessionSocket)
             /\ pc' = [pc EXCEPT ![d] = "iss_exit"]
    /\ UNCHANGED <<mListenSocket, mDaemonLock, mSessionSocket, files, nextConn, hist, started>>

\* Mutant of ISS_Clear: the new descriptor is adopted without Clear().
ISS_Clear_Skipped(d) ==
    /\ At(d, "clear")
    /\ pc' = [pc EXCEPT ![d] = "adopt"]
    /\ UNCHANGED <<mListenSocket, mDaemonLock, mSessionSocket, local, fdTable, ebadf,
                   flockOwner, files, nextConn, hist, started>>

\* Clear(), before the new descriptor is adopted.
ISS_Clear(d) ==
    /\ At(d, "clear")
    /\ Clear(d, local[d])
    /\ hist' = Ended(d, "replaced")
    /\ pc' = [pc EXCEPT ![d] = "adopt"]
    /\ UNCHANGED <<mListenSocket, mDaemonLock, files, nextConn, started>>

\* mSessionSocket = newSessionSocket
ISS_Adopt(d) ==
    /\ At(d, "adopt")
    /\ mSessionSocket' = [mSessionSocket EXCEPT ![d] = local[d].newSessionSocket]
    /\ hist' = [hist EXCEPT ![d].adopted = fdTable[d][local[d].newSessionSocket].conn,
                            ![d].replaced = local[d].prior,
                            ![d].rx = <<>>, ![d].in = <<>>, ![d].rejected = FALSE]
    /\ pc' = [pc EXCEPT ![d] = "iss_exit"]
    /\ UNCHANGED <<mListenSocket, mDaemonLock, local, fdTable, ebadf, flockOwner, files,
                   nextConn, started>>

\* Mutant of ISS_Exit: the exit block does not call Clear().
ISS_Exit_NoClear(d) ==
    /\ At(d, "iss_exit")
    /\ pc' = [pc EXCEPT ![d] = "session"]
    /\ UNCHANGED <<mListenSocket, mDaemonLock, mSessionSocket, fdTable, ebadf, flockOwner,
                   local, hist, files, nextConn, started>>

\* exit: if (flag == -1) { Clear(); }
ISS_Exit(d) ==
    /\ At(d, "iss_exit")
    /\ IF local[d].flag = -1
       THEN /\ Clear(d, local[d])
            /\ hist' = Ended(d, IF local[d].newSessionSocket = -1 THEN "accept" ELSE "config")
       ELSE UNCHANGED <<mSessionSocket, fdTable, ebadf, flockOwner, local, hist>>
    /\ pc' = [pc EXCEPT ![d] = "session"]
    /\ UNCHANGED <<mListenSocket, mDaemonLock, files, nextConn, started>>

\* Mutant of ProcessSession: a session that is not erroring is read without
\* testing the read set.
ProcessSession_ReadUntested(d) ==
    /\ At(d, "session")
    /\ IF mSessionSocket[d] = -1
       THEN /\ pc' = [pc EXCEPT ![d] = "returned"]
            /\ UNCHANGED <<mSessionSocket, fdTable, ebadf, flockOwner, local, hist>>
       ELSE IF FD_ISSET(mSessionSocket[d], local[d].errorFdSet)
       THEN /\ Clear(d, local[d])
            /\ hist' = Ended(d, "error")
            /\ pc' = [pc EXCEPT ![d] = "returned"]
       ELSE /\ pc' = [pc EXCEPT ![d] = "read"]
            /\ UNCHANGED <<mSessionSocket, fdTable, ebadf, flockOwner, local, hist>>
    /\ UNCHANGED <<mListenSocket, mDaemonLock, files, nextConn, started>>

\* Mutant of ProcessSession: the read set is tested before the error set.
ProcessSession_ReadableFirst(d) ==
    /\ At(d, "session")
    /\ IF mSessionSocket[d] = -1
       THEN /\ pc' = [pc EXCEPT ![d] = "returned"]
            /\ UNCHANGED <<mSessionSocket, fdTable, ebadf, flockOwner, local, hist>>
       ELSE IF FD_ISSET(mSessionSocket[d], local[d].readFdSet)
       THEN /\ pc' = [pc EXCEPT ![d] = "read"]
            /\ UNCHANGED <<mSessionSocket, fdTable, ebadf, flockOwner, local, hist>>
       ELSE IF FD_ISSET(mSessionSocket[d], local[d].errorFdSet)
       THEN /\ Clear(d, local[d])
            /\ hist' = Ended(d, "error")
            /\ pc' = [pc EXCEPT ![d] = "returned"]
       ELSE /\ pc' = [pc EXCEPT ![d] = "returned"]
            /\ UNCHANGED <<mSessionSocket, fdTable, ebadf, flockOwner, local, hist>>
    /\ UNCHANGED <<mListenSocket, mDaemonLock, files, nextConn, started>>

\* VerifyOrExit(mSessionSocket != -1) and the tests of the session descriptor.
ProcessSession(d) ==
    /\ At(d, "session")
    /\ IF mSessionSocket[d] = -1
       THEN /\ pc' = [pc EXCEPT ![d] = "returned"]
            /\ UNCHANGED <<mSessionSocket, fdTable, ebadf, flockOwner, local, hist>>
       ELSE IF FD_ISSET(mSessionSocket[d], local[d].errorFdSet)
       THEN /\ Clear(d, local[d])
            /\ hist' = Ended(d, "error")
            /\ pc' = [pc EXCEPT ![d] = "returned"]
       ELSE IF FD_ISSET(mSessionSocket[d], local[d].readFdSet)
       THEN /\ pc' = [pc EXCEPT ![d] = "read"]
            /\ UNCHANGED <<mSessionSocket, fdTable, ebadf, flockOwner, local, hist>>
       ELSE /\ pc' = [pc EXCEPT ![d] = "returned"]
            /\ UNCHANGED <<mSessionSocket, fdTable, ebadf, flockOwner, local, hist>>
    /\ UNCHANGED <<mListenSocket, mDaemonLock, files, nextConn, started>>

\* The byte sequences one read() can return: at most MaxChunk bytes, and no
\* more than the session still has to receive.
Chunks(d) ==
    UNION {[1..n -> Bytes] : n \in 0..MaxChunk} \cap
        UNION {[1..n -> Bytes] : n \in 0..(MaxStream - Len(hist[d].rx))}

\* received = read(mSessionSocket, buffer, sizeof(buffer)); -1 terminates.
ProcessRead(d) ==
    /\ At(d, "read")
    /\ \/ /\ local' = [local EXCEPT ![d] =
                          [Called(@, "read") EXCEPT
                              !.received = -1,
                              !.readConn = fdTable[d][mSessionSocket[d]].conn]]
          /\ pc' = [pc EXCEPT ![d] = "die"]
          /\ UNCHANGED hist
       \/ /\ fdTable[d][mSessionSocket[d]].kind = "conn"
          /\ \E data \in Chunks(d) :
              /\ local' = [local EXCEPT ![d] =
                              [Called(@, "read") EXCEPT
                                  !.received = Len(data), !.buffer = data,
                                  !.readConn = fdTable[d][mSessionSocket[d]].conn]]
              /\ hist' = [hist EXCEPT ![d].rx = @ \o data]
          /\ pc' = [pc EXCEPT ![d] = "input"]
    /\ UNCHANGED <<mListenSocket, mDaemonLock, mSessionSocket, fdTable, ebadf, flockOwner,
                   files, nextConn, started>>

\* The results mDeps.InputCommandLine can return: success or an error.
ConsumerResults == {"NONE", "INVALID_ARGS"}

\* Mutant of InputBytes: the length passed on is one short.
InputBytes_OneShort(buffer, received) == SubSeq(buffer, 1, (received - 1) % kLengthWidth)

\* The bytes InputCommandLine(aBuf, aLength) is given: the first aLength bytes
\* of the buffer, aLength being the count converted to uint16_t.
InputBytes(buffer, received) == SubSeq(buffer, 1, received % kLengthWidth)

\* Mutant of ProcessInput: a read of zero bytes is passed on like any other.
ProcessInput_EofAsData(d) ==
    /\ At(d, "input")
    /\ \E error \in ConsumerResults :
            local' = [local EXCEPT ![d] =
                        [Called(@, "InputCommandLine") EXCEPT
                            !.delivered = InputBytes(local[d].buffer, local[d].received),
                            !.error = error]]
    /\ hist' = [hist EXCEPT ![d].in = @ \o InputBytes(local[d].buffer, local[d].received)]
    /\ pc' = [pc EXCEPT ![d] = "returned"]
    /\ UNCHANGED <<mListenSocket, mDaemonLock, mSessionSocket, fdTable, ebadf, flockOwner,
                   files, nextConn, started>>

\* Mutant of ProcessInput: an error of the consumer ends the session.
ProcessInput_ClearsOnError(d) ==
    /\ At(d, "input")
    /\ IF local[d].received = 0
       THEN /\ Clear(d, local[d])
            /\ hist' = Ended(d, "eof")
       ELSE \E error \in ConsumerResults :
            LET loc == [Called(local[d], "InputCommandLine") EXCEPT
                            !.delivered = InputBytes(local[d].buffer, local[d].received),
                            !.error = error]
            IN  IF error # "NONE"
                THEN /\ Clear(d, loc)
                     /\ hist' = Ended(d, "consumer")
                ELSE /\ local' = [local EXCEPT ![d] = loc]
                     /\ hist' = [hist EXCEPT
                            ![d].in = @ \o InputBytes(local[d].buffer, local[d].received)]
                     /\ UNCHANGED <<mSessionSocket, fdTable, ebadf, flockOwner>>
    /\ pc' = [pc EXCEPT ![d] = "returned"]
    /\ UNCHANGED <<mListenSocket, mDaemonLock, files, nextConn, started>>

\* if (received == 0) Clear(); else error = mDeps.InputCommandLine(buffer, received);
ProcessInput(d) ==
    /\ At(d, "input")
    /\ IF local[d].received = 0
       THEN /\ Clear(d, local[d])
            /\ hist' = Ended(d, "eof")
       ELSE /\ \E error \in ConsumerResults :
                /\ local' = [local EXCEPT ![d] =
                                [Called(@, "InputCommandLine") EXCEPT
                                    !.delivered = InputBytes(local[d].buffer, local[d].received),
                                    !.error = error]]
                /\ hist' = [hist EXCEPT
                                ![d].in = @ \o InputBytes(local[d].buffer, local[d].received),
                                ![d].rejected = @ \/ error # "NONE"]
            /\ UNCHANGED <<mSessionSocket, fdTable, ebadf, flockOwner>>
    /\ pc' = [pc EXCEPT ![d] = "returned"]
    /\ UNCHANGED <<mListenSocket, mDaemonLock, files, nextConn, started>>

-----------------------------------------------------------------------------
(* Return to the caller, and the end of the process *)

\* The operation returns to the main loop; its locals are gone.
Return(d) ==
    /\ At(d, "returned")
    /\ pc' = [pc EXCEPT ![d] = "idle"]
    /\ local' = [local EXCEPT ![d] = NoFrame]
    /\ UNCHANGED <<mListenSocket, mDaemonLock, mSessionSocket, fdTable, ebadf, flockOwner,
                   files, nextConn, hist, started>>

\* VerifyOrDie has failed: the process ends, the operating system closes its
\* descriptors and releases its lock.  The files it created stay.
ProcessExit(d) ==
    /\ At(d, "die")
    /\ pc' = [pc EXCEPT ![d] = "dead"]
    /\ fdTable' = [fdTable EXCEPT ![d] = [f \in Fds |-> ClosedFd]]
    /\ flockOwner' = [p \in Paths |-> IF flockOwner[p] = d THEN NoDaemon ELSE flockOwner[p]]
    /\ UNCHANGED <<mListenSocket, mDaemonLock, mSessionSocket, local, ebadf, files,
                   nextConn, hist, started>>

-----------------------------------------------------------------------------
(* Specifications *)

\* The steps of Init, Deinit and UpdateFdSet, and the return to the caller.
Setup(d) ==
    \/ \E aNetIfName \in NetIfNames : InitEnter(d, aNetIfName)
    \/ CLS_Socket(d)
    \/ CLS_OpenLock(d)
    \/ CLS_Flock(d)
    \/ CLS_Unlink(d)
    \/ CLS_Bind(d)
    \/ InitListen(d)
    \/ Deinit(d)
    \/ UpdateFdSet(d)
    \/ Return(d)
    \/ ProcessExit(d)

\* The steps of Process after its entry.
Serve(d) ==
    \/ ISS_Accept(d)
    \/ ISS_GetFd(d)
    \/ ISS_SetFd(d)
    \/ ISS_Clear(d)
    \/ ISS_Adopt(d)
    \/ ISS_Exit(d)
    \/ ProcessSession(d)
    \/ ProcessRead(d)
    \/ ProcessInput(d)

\* One daemon, every operation, arbitrary readiness sets and system-call outcomes.
Next ==
    \E d \in Daemons :
        \/ Setup(d)
        \/ \E readFdSet \in ReadinessSets, errorFdSet \in ReadinessSets :
                ProcessEnter(d, readFdSet, errorFdSet)
        \/ Serve(d)

Spec == Init /\ [][Next]_vars

\* Several daemons setting up side by side.  No client connects: Process is
\* called with nothing readable and any of the registered descriptors erroring.
NextDaemons ==
    \E d \in Daemons :
        \/ Setup(d)
        \/ \E errorFdSet \in SUBSET RegisteredFds(d) : ProcessEnter(d, {}, errorFdSet)
        \/ ProcessSession(d)

SpecDaemons == InitDaemons /\ [][NextDaemons]_vars

\* GetSocketFilename on its own, applied to names of every length.
NextFilename ==
    \E d \in Daemons :
        \/ GetSocketFilename(d)
        \/ Return(d)
        \/ ProcessExit(d)

SpecFilename == InitFilename /\ [][NextFilename]_vars

-----------------------------------------------------------------------------
(* Notions used by the properties *)

\* The (system or consumer) calls of the given name made by the running operation.
CallsOf(d, name) == {i \in 1..Len(local[d].calls) : local[d].calls[i] = name}

\* The process of daemon d has not ended.
Live(d) == pc[d] # "dead"

\* InitializeSessionSocket stands between its accept() and its Clear(): the new
\* connection is open and not yet adopted.
Accepting(d) == pc[d] \in {"getfd", "setfd", "clear"}

\* The running Process call has accepted a connection and adopted it as the session.
AdoptedNow(d) ==
    /\ local[d].op = "Process"
    /\ local[d].newSessionSocket # -1
    /\ local[d].flag # -1
    /\ pc[d] \in {"iss_exit", "session", "read", "input", "returned", "die"}

\* The lock path of the Init call daemon d is running or has just returned from.
LockPathOf(d) == SocketFilename(local[d].aNetIfName, kSocketLockSuffix)

-----------------------------------------------------------------------------
(* C1 *)

\* C1 as stated: at every step, the steps inside InitializeSessionSocket
\* included, at most one accepted descriptor is open in a daemon.
C1_AtMostOneAcceptedOpen ==
    \A d \in Daemons : Cardinality(OpenConns(d)) <= 1

\* C1, amended: at most one session is active at any time, and the session
\* descriptor, when valid, is an open accepted connection.  Outside the steps of
\* InitializeSessionSocket between accept() and Clear() no accepted descriptor
\* other than the session's is open (and at the adoption step only the new one);
\* between accept() and Clear() the old session and the new connection are both
\* open, and nothing else.
C1_OneSession ==
    \A d \in Daemons :
        /\ Live(d) /\ mSessionSocket[d] # -1 =>
                /\ mSessionSocket[d] \in OpenConns(d)
                /\ fdTable[d][mSessionSocket[d]].conn = hist[d].adopted
        /\ Accepting(d) =>
                /\ OpenConns(d) \subseteq {mSessionSocket[d], local[d].newSessionSocket}
                /\ local[d].newSessionSocket \in OpenConns(d)
                /\ local[d].newSessionSocket # mSessionSocket[d]
        /\ pc[d] = "adopt" => OpenConns(d) = {local[d].newSessionSocket}
        /\ ~Accepting(d) /\ pc[d] # "adopt" =>
                /\ OpenConns(d) \subseteq {mSessionSocket[d]}
                /\ Cardinality(OpenConns(d)) <= 1

\* A second client has been accepted while a first was connected, and the call
\* has returned with the second as the session.
C1_Witness ==
    \E d \in Daemons :
        /\ pc[d] = "returned"
        /\ AdoptedNow(d)
        /\ local[d].prior # 0
        /\ mSessionSocket[d] = local[d].newSessionSocket
        /\ OpenConns(d) = {mSessionSocket[d]}

-----------------------------------------------------------------------------
(* C2 *)

\* C2: when client B is accepted while client A's session is active, A's
\* descriptor is closed before mSessionSocket is set to B's; after the adoption
\* B's is the only open connection; and every read of Process is made on the
\* connection adopted last, never on the replaced one.
C2_ReplacedBeforeAdopted ==
    \A d \in Daemons :
        /\ pc[d] = "adopt" =>
                /\ mSessionSocket[d] = -1
                /\ \A f \in Fds : fdTable[d][f].kind = "conn" => fdTable[d][f].conn # local[d].prior
                /\ OpenConns(d) = {local[d].newSessionSocket}
        /\ pc[d] = "iss_exit" /\ AdoptedNow(d) =>
                /\ mSessionSocket[d] = local[d].newSessionSocket
                /\ OpenConns(d) = {mSessionSocket[d]}
                /\ hist[d].adopted = fdTable[d][mSessionSocket[d]].conn
                /\ hist[d].replaced = local[d].prior
        /\ CallsOf(d, "read") # {} /\ pc[d] \in {"input", "die"} =>
                /\ local[d].readConn = hist[d].adopted
                /\ local[d].readConn # 0
                /\ local[d].readConn # hist[d].replaced
                /\ local[d].readConn = fdTable[d][mSessionSocket[d]].conn
                /\ OpenConns(d) = {mSessionSocket[d]}

\* B replaced A in an earlier Process call, and a later call has read bytes from B.
C2_Witness ==
    \E d \in Daemons :
        /\ pc[d] = "input"
        /\ local[d].received > 0
        /\ local[d].newSessionSocket = -1
        /\ hist[d].replaced # 0
        /\ local[d].readConn = hist[d].adopted

-----------------------------------------------------------------------------
(* C3 *)

\* C3: once Init has succeeded (and no Deinit has followed), a further Init
\* returns OTBR_ERROR_INVALID_STATE at once, makes no system call, and leaves the
\* three descriptors, the descriptor table, the locks and the files unchanged.
C3_SecondInitRejected ==
    [][\A d \in Daemons :
        (hist[d].endpoint = "init" /\ pc[d] = "idle" /\ pc'[d] # "idle" /\ local'[d].op = "Init")
            => /\ pc'[d] = "returned"
               /\ local'[d].error = "INVALID_STATE"
               /\ local'[d].calls = <<>>
               /\ mListenSocket'[d] = mListenSocket[d]
               /\ mDaemonLock'[d] = mDaemonLock[d]
               /\ mSessionSocket'[d] = mSessionSocket[d]
               /\ fdTable' = fdTable
               /\ flockOwner' = flockOwner
               /\ files' = files]_vars

\* Init has been called on an initialized endpoint and has returned invalid-state.
C3_Witness ==
    \E d \in Daemons :
        /\ hist[d].endpoint = "init"
        /\ pc[d] = "returned"
        /\ local[d].op = "Init"
        /\ local[d].error = "INVALID_STATE"
        /\ fdTable[d][mListenSocket[d]].listening

-----------------------------------------------------------------------------
(* C4 *)

\* Daemon w has bound its listen socket to the socket file at path p.
BoundTo(w, p) ==
    /\ Live(w)
    /\ mListenSocket[w] # -1
    /\ fdTable[w][mListenSocket[w]].kind = "socket"
    /\ fdTable[w][mListenSocket[w]].path = p
    /\ files[p] = w

\* Daemon d has called flock() in its Init and does not hold the lock.
LostLock(d) ==
    /\ Live(d)
    /\ local[d].op = "Init"
    /\ CallsOf(d, "flock") # {}
    /\ flockOwner[LockPathOf(d)] # d

\* C4: of daemons running Init on one interface name, under every interleaving
\* of their steps, the one that does not get the lock returns OTBR_ERROR_ERRNO
\* from Init (not invalid-state) without having called unlink, bind or listen;
\* and the socket file a daemon is bound to is never removed or replaced.
C4_LoserStopsAtLock ==
    /\ [](\A d \in Daemons :
            LostLock(d) =>
                /\ pc[d] = "returned"
                /\ local[d].error = "ERRNO"
                /\ local[d].calls = <<"socket", "open", "flock">>)
    /\ [][\A w \in Daemons : \A p \in Paths :
            BoundTo(w, p) =>
                /\ files'[p] = w
                /\ (Live(w))' => fdTable'[w][mListenSocket[w]].path = p]_vars

\* One daemon has completed Init and another, on the same lock path, has
\* returned from Init with an OS error right after flock().
C4_Witness ==
    \E w \in Daemons : \E l \in Daemons :
        /\ w # l
        /\ hist[w].endpoint = "init"
        /\ \E p \in Paths : BoundTo(w, p)
        /\ LostLock(l)
        /\ flockOwner[LockPathOf(l)] = w
        /\ pc[l] = "returned"

-----------------------------------------------------------------------------
(* C5 *)

\* Daemon d is running and one of its Init calls has succeeded.
Initialized(d) == Live(d) /\ hist[d].endpoint # "none"

\* C5: among the running daemons that use one lock path at most one has
\* completed Init, and a running daemon whose Init has succeeded holds the
\* exclusive lock on its lock file, also after Deinit.
C5_OneInitializedHoldsLock ==
    /\ \A p \in Paths :
        Cardinality({d \in Daemons :
            Initialized(d) /\ fdTable[d][mDaemonLock[d]].path = p}) <= 1
    /\ \A d \in Daemons :
        Initialized(d) =>
            /\ IsOpen(d, mDaemonLock[d])
            /\ fdTable[d][mDaemonLock[d]].kind = "lock"
            /\ flockOwner[fdTable[d][mDaemonLock[d]].path] = d

\* A daemon has been deinitialized after a successful Init, still holds the
\* lock, and another daemon's Init has failed at the lock since.
C5_Witness ==
    \E w \in Daemons : \E l \in Daemons :
        /\ w # l
        /\ hist[w].endpoint = "deinit"
        /\ Live(w)
        /\ LostLock(l)
        /\ flockOwner[LockPathOf(l)] = w
        /\ pc[l] = "returned"
        /\ hist[l].endpoint = "none"

-----------------------------------------------------------------------------
(* C6 *)

\* Daemon d runs (or has ended in) an Init that got past the guard with an
\* interface name whose paths exceed the capacity of sun_path.
InitTooLong(d) ==
    /\ local[d].op = "Init"
    /\ local[d].error # "INVALID_STATE"
    /\ \E suffix \in Suffixes :
            Len(SocketFilename(local[d].aNetIfName, suffix)) > kMaxSocketFilenameLength

\* C6 as stated: with such a name Init fails fatally before any socket is
\* created and before any system call is made.
C6_FatalBeforeSocket ==
    \A d \in Daemons :
        InitTooLong(d) =>
            /\ local[d].calls = <<>>
            /\ mListenSocket[d] = -1
            /\ pc[d] \in {"socket", "die", "dead"}

\* C6, amended: with such a name Init makes no system call other than the
\* creation of the listen socket, so that neither the lock file nor the socket
\* file is created and no lock is taken; when the socket has been created the
\* process terminates at the path check that follows, holding the socket
\* descriptor, and when socket creation fails Init returns OTBR_ERROR_ERRNO.
C6_FatalBeforeLockFile ==
    \A d \in Daemons :
        InitTooLong(d) =>
            /\ local[d].calls \in {<<>>, <<"socket">>}
            /\ mDaemonLock[d] = -1
            /\ \A f \in Fds : fdTable[d][f].kind # "lock"
            /\ \A suffix \in Suffixes :
                /\ files[SocketFilename(local[d].aNetIfName, suffix)] = NoDaemon
                /\ flockOwner[SocketFilename(local[d].aNetIfName, suffix)] = NoDaemon
            /\ pc[d] \in {"socket", "open", "die", "dead", "returned"}
            /\ pc[d] = "returned" => local[d].error = "ERRNO" /\ mListenSocket[d] = -1
            /\ pc[d] \in {"open", "die"} => fdTable[d][mListenSocket[d]].kind = "socket"

\* Init with a name that is too long has terminated the process after the
\* listen socket was created.
C6_Witness ==
    \E d \in Daemons :
        /\ InitTooLong(d)
        /\ pc[d] = "die"
        /\ local[d].calls = <<"socket">>
        /\ IsOpen(d, mListenSocket[d])

-----------------------------------------------------------------------------
(* C7 *)

\* C7: when Process reads zero bytes from the session, the session descriptor
\* is closed and the session becomes absent, Process returns (the process goes
\* on, no error is set, the consumer is not called), and the listen descriptor
\* and its socket are as before; and whenever a later InitializeSessionSocket
\* accepts and configures a connection, that connection is the active session.
C7_EofClearsSession ==
    /\ [][\A d \in Daemons :
            (pc[d] = "input" /\ local[d].received = 0 /\ pc'[d] # "input") =>
                /\ pc'[d] = "returned"
                /\ mSessionSocket'[d] = -1
                /\ fdTable'[d][mSessionSocket[d]].kind = "closed"
                /\ OpenConns(d)' = {}
                /\ local'[d].error = "NONE"
                /\ local'[d].calls = Append(local[d].calls, "close")
                /\ mListenSocket'[d] = mListenSocket[d]
                /\ fdTable'[d][mListenSocket[d]] = fdTable[d][mListenSocket[d]]]_vars
    /\ [](\A d \in Daemons :
            (pc[d] = "session" /\ local[d].newSessionSocket # -1 /\ local[d].flag # -1) =>
                /\ mSessionSocket[d] = local[d].newSessionSocket
                /\ mSessionSocket[d] \in OpenConns(d))

\* A session ended by a read of zero bytes, and a later Process call has
\* accepted a connection, which is the active session now.
C7_Witness ==
    \E d \in Daemons :
        /\ pc[d] = "returned"
        /\ AdoptedNow(d)
        /\ local[d].prior = 0
        /\ hist[d].ended = "eof"
        /\ mSessionSocket[d] = local[d].newSessionSocket
        /\ mSessionSocket[d] \in OpenConns(d)

-----------------------------------------------------------------------------
(* C8 *)

\* C8: a Process call makes at most one read and at most one InputCommandLine
\* call; that call is given exactly the bytes the read returned, same length,
\* same order; and over the Process calls on one session the bytes given to the
\* consumer are the bytes read, in order, nothing dropped, repeated or reordered.
C8_BytesForwardedVerbatim ==
    \A d \in Daemons :
        /\ Cardinality(CallsOf(d, "read")) <= 1
        /\ Cardinality(CallsOf(d, "InputCommandLine")) <= 1
        /\ CallsOf(d, "InputCommandLine") # {} =>
                /\ CallsOf(d, "read") # {}
                /\ local[d].received > 0
                /\ Len(local[d].delivered) = local[d].received
                /\ local[d].delivered = local[d].buffer
        /\ CallsOf(d, "InputCommandLine") = {} => local[d].delivered = <<>>
        /\ pc[d] = "input" => hist[d].rx = hist[d].in \o local[d].buffer
        /\ pc[d] # "input" => hist[d].in = hist[d].rx

\* A Process call has passed a chunk to the consumer on a session that an
\* earlier call had already passed bytes on.
C8_Witness ==
    \E d \in Daemons :
        /\ pc[d] = "returned"
        /\ CallsOf(d, "InputCommandLine") # {}
        /\ local[d].delivered # <<>>
        /\ Len(hist[d].in) > Len(local[d].delivered)
        /\ hist[d].in = hist[d].rx

-----------------------------------------------------------------------------
(* C9 *)

\* Within one Process call the accept on the listen descriptor comes before the
\* read on the session descriptor.
ListenBeforeSession(d) ==
    \A i \in CallsOf(d, "accept") : \A j \in CallsOf(d, "read") : i < j

\* C9 as stated: the listen descriptor is handled before the session
\* descriptor, and a connection accepted in a Process call is not read from in
\* that call.
C9_NewConnectionNotRead ==
    \A d \in Daemons :
        /\ ListenBeforeSession(d)
        /\ AdoptedNow(d) => CallsOf(d, "read") = {}

\* What Process does ensure: the listen descriptor is handled before the
\* session descriptor, and a connection accepted in a Process call is read from
\* in that call only when the number of its descriptor is marked readable and
\* not erroring in the readiness set of the call; that number is none of those
\* UpdateFdSet registers before the call.
C9_NewConnectionReadOnlyIfMarked ==
    \A d \in Daemons :
        /\ ListenBeforeSession(d)
        /\ AdoptedNow(d) /\ CallsOf(d, "read") # {} =>
                /\ local[d].newSessionSocket \in local[d].readFdSet
                /\ local[d].newSessionSocket \notin local[d].errorFdSet
                /\ local[d].newSessionSocket \notin local[d].registered
                /\ local[d].readConn = nextConn[d]

\* A Process call has accepted a connection and read bytes from it.
C9_Witness ==
    \E d \in Daemons :
        /\ pc[d] = "input"
        /\ AdoptedNow(d)
        /\ local[d].received > 0
        /\ local[d].calls[1] = "accept"

-----------------------------------------------------------------------------
(* C10 *)

\* C10 as stated: between operations the listen descriptor is valid exactly
\* when Init has succeeded and Deinit has not been called since.
C10_ListenValidIffInitialized ==
    \A d \in Daemons :
        pc[d] \in {"idle", "returned"} =>
            (mListenSocket[d] # -1 <=> hist[d].endpoint = "init")

\* C10, amended: the listen descriptor is valid exactly when an Init call has
\* created the listen socket.  It is valid after a successful Init and stays
\* valid after Deinit and after an Init that failed at a later step (lock file,
\* lock, bind, listen); it is invalid before the first Init and after an Init
\* whose socket creation failed.
C10_ListenValidIffSocketCreated ==
    \A d \in Daemons :
        Live(d) =>
            /\ mListenSocket[d] # -1 <=> (\E f \in Fds : fdTable[d][f].kind = "socket")
            /\ mListenSocket[d] # -1 => fdTable[d][mListenSocket[d]].kind = "socket"
            /\ hist[d].endpoint # "none" =>
                    mListenSocket[d] # -1 /\ fdTable[d][mListenSocket[d]].listening
            /\ (pc[d] = "returned" /\ local[d].op = "Init" /\ local[d].error = "ERRNO") =>
                    (mListenSocket[d] = -1 <=> local[d].calls = <<"socket">>)

\* Deinit has been called on an initialized endpoint and the listen descriptor
\* is still valid.
C10_Witness ==
    \E d \in Daemons :
        /\ pc[d] = "idle"
        /\ hist[d].endpoint = "deinit"
        /\ mListenSocket[d] # -1
        /\ fdTable[d][mListenSocket[d]].listening

-----------------------------------------------------------------------------
(* C11 *)

\* C11: when InputCommandLine returns an error, Process returns without closing
\* the session, without terminating and without touching the listen descriptor:
\* the session descriptor and the descriptor table are the same before and
\* after; a session on which the consumer has failed stays the active, open
\* session; and a following Process call that finds it readable and not
\* erroring (the listen descriptor not being readable) reads from it.
C11_ConsumerErrorKeepsSession ==
    /\ [][\A d \in Daemons :
            (pc[d] = "input" /\ local[d].received > 0 /\ pc'[d] # "input") =>
                /\ pc'[d] = "returned"
                /\ local'[d].error \in ConsumerResults
                /\ mSessionSocket'[d] = mSessionSocket[d]
                /\ mListenSocket'[d] = mListenSocket[d]
                /\ fdTable'[d] = fdTable[d]
                /\ hist'[d].rejected = (hist[d].rejected \/ local'[d].error # "NONE")]_vars
    /\ [](\A d \in Daemons :
            (Live(d) /\ hist[d].rejected) =>
                /\ mSessionSocket[d] \in OpenConns(d)
                /\ fdTable[d][mSessionSocket[d]].conn = hist[d].adopted)
    /\ [][\A d \in Daemons :
            (/\ pc[d] = "session" /\ pc'[d] # "session"
             /\ hist[d].rejected
             /\ FD_ISSET(mSessionSocket[d], local[d].readFdSet)
             /\ ~FD_ISSET(mSessionSocket[d], local[d].errorFdSet)) =>
                pc'[d] = "read"]_vars
    /\ [](\A d \in Daemons :
            (pc[d] = "input" /\ hist[d].rejected) => local[d].readConn = hist[d].adopted)

\* The consumer has returned an error in one Process call, and a later Process
\* call has read further bytes from the same session.
C11_Witness ==
    \E d \in Daemons :
        /\ pc[d] = "input"
        /\ hist[d].rejected
        /\ local[d].received > 0
        /\ local[d].calls = <<"read">>
        /\ hist[d].in # <<>>
        /\ local[d].readConn = hist[d].adopted
        /\ mSessionSocket[d] \in OpenConns(d)

-----------------------------------------------------------------------------
(* C12 *)

\* The length of "/run/openthread-" + name + suffix, counted by hand.
ExpectedLength(aNetIfName) ==
    16 + (IF aNetIfName = "" THEN 5 ELSE Len(aNetIfName)) + 5

\* C12: for every interface name and suffix GetSocketFilename returns
\* "/run/openthread-" + name + suffix, with "wpan0" for the empty name, so that
\* the empty name and "wpan0" give the same paths; it returns exactly when
\* that length is at most 107 and terminates the process exactly when it is
\* 108 or more.
C12_FilenameAndLimit ==
    \A d \in Daemons :
        (local[d].op = "GetSocketFilename" /\ pc[d] # "filename") =>
            LET name == local[d].aNetIfName
                suffix == local[d].aSuffix
            IN  /\ pc[d] \in {"returned", "die", "dead"}
                /\ pc[d] = "returned" <=> ExpectedLength(name) <= 107
                /\ pc[d] \in {"die", "dead"} <=> ExpectedLength(name) >= 108
                /\ pc[d] = "returned" =>
                        /\ Len(local[d].fileName) = ExpectedLength(name)
                        /\ local[d].fileName =
                                "/run/openthread-" \o (IF name = "" THEN "wpan0" ELSE name)
                                    \o suffix
                        /\ name = "" =>
                                local[d].fileName = SocketFilename("wpan0", suffix)

\* GetSocketFilename has returned a socket path of exactly 107 characters.
C12_Witness ==
    \E d \in Daemons :
        /\ local[d].op = "GetSocketFilename"
        /\ pc[d] = "returned"
        /\ local[d].aSuffix = kSocketSuffix
        /\ Len(local[d].aNetIfName) = 86
        /\ Len(local[d].fileName) = 107

-----------------------------------------------------------------------------
(* C13 *)

\* C13: Deinit closes the active session, if there is one, and leaves the
\* session absent; it changes neither the listen descriptor nor the lock
\* descriptor: every other descriptor of the process is as before, the listen
\* socket is still open and the lock is still held.
C13_DeinitClosesOnlySession ==
    [][\A d \in Daemons :
        (pc[d] = "idle" /\ local'[d].op = "Deinit") =>
            /\ pc'[d] = "returned"
            /\ mSessionSocket'[d] = -1
            /\ OpenConns(d)' = OpenConns(d) \ {mSessionSocket[d]}
            /\ local'[d].calls = IF mSessionSocket[d] # -1 THEN <<"close">> ELSE <<>>
            /\ ebadf'[d] = ebadf[d]
            /\ mListenSocket'[d] = mListenSocket[d]
            /\ mDaemonLock'[d] = mDaemonLock[d]
            /\ \A f \in Fds \ {mSessionSocket[d]} : fdTable'[d][f] = fdTable[d][f]
            /\ flockOwner' = flockOwner
            /\ files' = files]_vars

\* Deinit has closed an active session of an initialized daemon: the listen
\* socket is open and listening, the lock is held.
C13_Witness ==
    \E d \in Daemons :
        /\ pc[d] = "returned"
        /\ local[d].op = "Deinit"
        /\ local[d].calls = <<"close">>
        /\ mSessionSocket[d] = -1
        /\ OpenConns(d) = {}
        /\ fdTable[d][mListenSocket[d]].listening
        /\ fdTable[d][mDaemonLock[d]].kind = "lock"
        /\ flockOwner[fdTable[d][mDaemonLock[d]].path] = d

-----------------------------------------------------------------------------
(* C14 *)

\* C14 as stated: an active session becomes absent only in a step that follows
\* a read of zero bytes on it, that finds its descriptor marked erroring, that
\* belongs to an InitializeSessionSocket whose accept has returned a
\* connection, or that is a Deinit; and an InitializeSessionSocket whose accept
\* has returned no connection leaves the session and the descriptors as they are.
C14_SessionEndsOnlyByListedCauses ==
    [][\A d \in Daemons :
        /\ (mSessionSocket[d] # -1 /\ mSessionSocket'[d] = -1) =>
                \/ pc[d] = "input" /\ local[d].received = 0
                \/ pc[d] = "session" /\ FD_ISSET(mSessionSocket[d], local[d].errorFdSet)
                \/ pc[d] \in {"clear", "iss_exit"} /\ local[d].newSessionSocket # -1
                \/ pc[d] = "idle" /\ local'[d].op = "Deinit"
        /\ (pc[d] = "iss_exit" /\ local[d].newSessionSocket = -1 /\ pc'[d] # "iss_exit") =>
                /\ mSessionSocket'[d] = mSessionSocket[d]
                /\ fdTable'[d] = fdTable[d]]_vars

-----------------------------------------------------------------------------
(* C15 *)

\* InitializeSessionSocket has returned in the running Process call after its
\* accept gave a connection and one of the two fcntl calls failed.
ConfigFailed(d) ==
    /\ local[d].op = "Process"
    /\ pc[d] \in {"session", "returned"}
    /\ local[d].newSessionSocket # -1
    /\ local[d].flag = -1

\* C15: when accept has returned a connection and reading or setting the
\* close-on-exec flag fails, then at the return of InitializeSessionSocket the
\* new descriptor is closed (once) and is not the session, a session that was
\* active before is closed too, and the session is absent.
C15_ConfigFailureClosesBoth ==
    \A d \in Daemons :
        ConfigFailed(d) =>
            /\ mSessionSocket[d] = -1
            /\ fdTable[d][local[d].newSessionSocket].kind = "closed"
            /\ OpenConns(d) = {}
            /\ ~ebadf[d]
            /\ Cardinality(CallsOf(d, "close")) = IF local[d].prior # 0 THEN 2 ELSE 1
            /\ CallsOf(d, "read") = {}
            /\ hist[d].adopted = 0

\* A Process call with an active session has accepted a connection, the
\* setting of the close-on-exec flag has failed, and both are closed.
C15_Witness ==
    \E d \in Daemons :
        /\ ConfigFailed(d)
        /\ pc[d] = "session"
        /\ local[d].prior # 0
        /\ local[d].calls = <<"accept", "fcntl", "fcntl", "close", "close">>
        /\ mSessionSocket[d] = -1

-----------------------------------------------------------------------------
(* C16 *)

\* C16: Process terminates the process in exactly two cases.  Whenever a
\* Process call stands at a failed VerifyOrDie, either it has made no call at
\* all and the listen descriptor is marked erroring, or its last call is a read
\* on the active session that returned -1; a Process call on a valid listen
\* descriptor that is marked erroring terminates at once, with the session and
\* the descriptors as they were and no accept and no read made; a read that
\* returns -1 terminates; and every other step of Process goes on.
C16_ProcessDiesInTwoCases ==
    /\ [](\A d \in Daemons :
            (local[d].op = "Process" /\ pc[d] = "die") =>
                \/ /\ local[d].calls = <<>>
                   /\ FD_ISSET(mListenSocket[d], local[d].errorFdSet)
                \/ /\ local[d].calls[Len(local[d].calls)] = "read"
                   /\ local[d].received = -1
                   /\ mSessionSocket[d] \in OpenConns(d)
                   /\ ~FD_ISSET(mListenSocket[d], local[d].errorFdSet))
    /\ [][\A d \in Daemons :
            /\ (pc[d] = "idle" /\ local'[d].op = "Process") =>
                    /\ (mListenSocket[d] # -1
                            /\ FD_ISSET(mListenSocket[d], local'[d].errorFdSet))
                         <=> pc'[d] = "die"
                    /\ local'[d].calls = <<>>
                    /\ mSessionSocket'[d] = mSessionSocket[d]
                    /\ fdTable'[d] = fdTable[d]
            /\ (pc[d] = "read" /\ pc'[d] # "read") =>
                    (local'[d].received = -1 <=> pc'[d] = "die")
            /\ (local[d].op = "Process" /\ pc[d] \notin {"idle", "read", "die"}) =>
                    pc'[d] # "die"]_vars

\* A Process call has terminated the process because the listen descriptor is
\* marked erroring; it is marked readable too and a session is active, and
\* nothing has been accepted, read or closed.
C16_Witness ==
    \E d \in Daemons :
        /\ local[d].op = "Process"
        /\ pc[d] = "die"
        /\ local[d].calls = <<>>
        /\ FD_ISSET(mListenSocket[d], local[d].errorFdSet)
        /\ FD_ISSET(mListenSocket[d], local[d].readFdSet)
        /\ mSessionSocket[d] \in OpenConns(d)

-----------------------------------------------------------------------------
(* C17 *)

\* C17: when Process comes to its session and finds the session descriptor
\* marked erroring, it clears the session and returns: the descriptor is
\* closed, the session is absent, the call has made no read and given nothing
\* to the consumer, also when the descriptor is marked readable as well; the
\* process goes on and the listen descriptor and its socket are as before.
\* After a session has ended this way the listen socket is still valid and
\* listening.
C17_SessionErrorClears ==
    /\ [][\A d \in Daemons :
            (/\ pc[d] = "session" /\ pc'[d] # "session"
             /\ mSessionSocket[d] # -1
             /\ FD_ISSET(mSessionSocket[d], local[d].errorFdSet)) =>
                /\ pc'[d] = "returned"
                /\ mSessionSocket'[d] = -1
                /\ fdTable'[d][mSessionSocket[d]].kind = "closed"
                /\ OpenConns(d)' = {}
                /\ CallsOf(d, "read")' = {}
                /\ CallsOf(d, "InputCommandLine")' = {}
                /\ local'[d].delivered = <<>>
                /\ local'[d].calls = Append(local[d].calls, "close")
                /\ mListenSocket'[d] = mListenSocket[d]
                /\ fdTable'[d][mListenSocket[d]] = fdTable[d][mListenSocket[d]]]_vars
    /\ [](\A d \in Daemons :
            (Live(d) /\ hist[d].ended = "error") =>
                /\ mListenSocket[d] # -1
                /\ fdTable[d][mListenSocket[d]].kind = "socket"
                /\ fdTable[d][mListenSocket[d]].listening)

\* A Process call has cleared a session whose descriptor was marked erroring
\* and readable, without a read; the listen socket is open and listening.
C17_Witness ==
    \E d \in Daemons :
        /\ pc[d] = "returned"
        /\ local[d].op = "Process"
        /\ local[d].calls = <<"close">>
        /\ hist[d].ended = "error"
        /\ mSessionSocket[d] = -1
        /\ \E f \in local[d].errorFdSet \cap local[d].readFdSet :
                f \in local[d].registered /\ f # mListenSocket[d]
        /\ fdTable[d][mListenSocket[d]].listening

-----------------------------------------------------------------------------
(* C18 *)

\* Daemon d runs, or has just returned from, an Init whose paths fit.
InitWithinLimit(d) ==
    /\ local[d].op = "Init"
    /\ \A suffix \in Suffixes :
            Len(SocketFilename(local[d].aNetIfName, suffix)) <= kMaxSocketFilenameLength

\* The setup steps of Init in the order of the code.
SetupSteps == <<"socket", "open", "flock", "unlink", "bind", "listen">>

\* C18: an Init within the path limit never terminates the process.  When one
\* of its setup steps fails (socket, open of the lock file, flock, bind,
\* listen), Init returns OTBR_ERROR_ERRNO, the calls it has made are the setup
\* steps up to and including the failing one and none after it, nothing has
\* been closed, and the listen socket and the lock file opened before the
\* failing step are still open; Init returns OTBR_ERROR_NONE only when all six
\* steps have been made.
C18_SetupFailureReturnsErrno ==
    \A d \in Daemons :
        InitWithinLimit(d) =>
            /\ pc[d] \notin {"die", "dead"}
            /\ \E n \in 0..Len(SetupSteps) : local[d].calls = SubSeq(SetupSteps, 1, n)
            /\ ~ebadf[d]
            /\ pc[d] = "returned" =>
                LET n == Len(local[d].calls)
                IN  /\ local[d].error \in {"NONE", "ERRNO", "INVALID_STATE"}
                    /\ local[d].error = "INVALID_STATE" <=> n = 0
                    /\ local[d].error = "NONE" =>
                            n = Len(SetupSteps) /\ fdTable[d][mListenSocket[d]].listening
                    /\ local[d].error = "ERRNO" =>
                        /\ SetupSteps[n] \in {"socket", "open", "flock", "bind", "listen"}
                        /\ n = 1 <=> mListenSocket[d] = -1
                        /\ n > 1 => fdTable[d][mListenSocket[d]].kind = "socket"
                        /\ n = 2 => mDaemonLock[d] = -1
                        /\ n > 2 => fdTable[d][mDaemonLock[d]].kind = "lock"
                        /\ n = 3 => flockOwner[fdTable[d][mDaemonLock[d]].path] # d
                        /\ n > 3 => flockOwner[fdTable[d][mDaemonLock[d]].path] = d
                        /\ n = 5 => fdTable[d][mListenSocket[d]].path = ""
                        /\ n > 1 => ~fdTable[d][mListenSocket[d]].listening

\* Init has returned OTBR_ERROR_ERRNO from a failed bind: the listen socket
\* and the lock file are open, the lock is held, listen was not called.
C18_Witness ==
    \E d \in Daemons :
        /\ InitWithinLimit(d)
        /\ pc[d] = "returned"
        /\ local[d].error = "ERRNO"
        /\ local[d].calls = <<"socket", "open", "flock", "unlink", "bind">>
        /\ fdTable[d][mListenSocket[d]].kind = "socket"
        /\ fdTable[d][mDaemonLock[d]].kind = "lock"
        /\ flockOwner[fdTable[d][mDaemonLock[d]].path] = d

-----------------------------------------------------------------------------
(* C19 *)

\* C19: a listen descriptor that is valid is never changed again, by no step
\* of Init, Deinit, UpdateFdSet or Process; and an Init called while it is
\* valid, so also after a Deinit and after an Init that failed at the lock
\* file, the lock, bind or listen, returns OTBR_ERROR_INVALID_STATE at once,
\* having made no system call and changed nothing.
C19_ListenValidForGood ==
    [][\A d \in Daemons :
        /\ mListenSocket[d] # -1 => mListenSocket'[d] = mListenSocket[d]
        /\ (pc[d] = "idle" /\ local'[d].op = "Init" /\ mListenSocket[d] # -1) =>
                /\ pc'[d] = "returned"
                /\ local'[d].error = "INVALID_STATE"
                /\ local'[d].calls = <<>>
                /\ UNCHANGED <<mDaemonLock, mSessionSocket, fdTable, flockOwner, files>>
        /\ (pc[d] = "idle" /\ hist[d].endpoint = "deinit") => mListenSocket[d] # -1]_vars

\* An Init made after an earlier Init had taken the lock and failed at bind
\* or listen has returned OTBR_ERROR_INVALID_STATE without a system call.
C19_Witness ==
    \E d \in Daemons :
        /\ pc[d] = "returned"
        /\ local[d].op = "Init"
        /\ local[d].error = "INVALID_STATE"
        /\ local[d].calls = <<>>
        /\ hist[d].endpoint = "none"
        /\ mListenSocket[d] # -1
        /\ ~fdTable[d][mListenSocket[d]].listening
        /\ mDaemonLock[d] # -1
        /\ flockOwner[fdTable[d][mDaemonLock[d]].path] = d

-----------------------------------------------------------------------------
(* C20 *)

\* The accepted descriptors that should be open: the session, when there is one.
SessionFds(d) == IF mSessionSocket[d] # -1 THEN {mSessionSocket[d]} ELSE {}

\* C20: between operations and at the return of every operation the open
\* accepted descriptors are exactly the session descriptor when a session is
\* active and none otherwise; no close() is ever made on a descriptor that is
\* not open, and every close() inside an operation closes exactly one accepted
\* descriptor; and a valid session descriptor of a running process always
\* refers to an open accepted connection.
C20_NoLeakNoDoubleClose ==
    /\ [](\A d \in Daemons :
            /\ pc[d] \in {"idle", "returned"} => OpenConns(d) = SessionFds(d)
            /\ ~ebadf[d]
            /\ Live(d) => SessionFds(d) \subseteq OpenConns(d))
    /\ [][\A d \in Daemons :
            pc[d] \notin {"returned", "die", "dead"} =>
                Cardinality(OpenConns(d) \ OpenConns(d)') =
                    Cardinality(CallsOf(d, "close")')
                        - (IF pc[d] = "idle" THEN 0 ELSE Cardinality(CallsOf(d, "close")))]_vars

\* A Process call has replaced an active session and returned: the old
\* descriptor was closed once, the new one is the only open accepted descriptor.
C20_Witness ==
    \E d \in Daemons :
        /\ pc[d] = "returned"
        /\ AdoptedNow(d)
        /\ local[d].prior # 0
        /\ Cardinality(CallsOf(d, "close")) = 1
        /\ mSessionSocket[d] = local[d].newSessionSocket
        /\ OpenConns(d) = {mSessionSocket[d]}
        /\ ~ebadf[d]

====
